---------------------------- MODULE Spec2Model ----------------------------
(***************************************************************************)
(* A model of cobra/io/sbmlnew.py: the conversion between an SBML/FBC      *)
(* document (the object tree libsbml hands over) and a cobra model.        *)
(*                                                                         *)
(* The libsbml document is modelled by the fields the code reads from it;  *)
(* read_sbml_model, _sbml_to_model, write_sbml_model, _model_to_sbml,      *)
(* _check_required and annotate_cobra_from_sbase are operators computed as *)
(* the code computes them, and one action per entry point applies them.    *)
(* A Python exception is the field exc of a result ("none" when the call   *)
(* returns); warn(...) appends to the field warnings.                      *)
(***************************************************************************)
EXTENDS Integers, Sequences, FiniteSets, TLC

VARIABLES
    op,       \* the entry point that was called: "idle" before any call
    arg,      \* the argument of the call
    out       \* what the call did: its result, exception and warnings

vars == <<op, arg, out>>

(***************************************************************************)
(* Bounds of the model.                                                    *)
(***************************************************************************)
\* resources (URIs) over all CV terms of one element
MaxUris == 3

\* species references of one reaction, reactants and products together
MaxRefs == 2

\* reactions of a document or of a cobra model
MaxReactions == 2

\* flux objectives of an objective
MaxFluxObjectives == 2

\* gene products of a document
MaxGeneProducts == 2

(***************************************************************************)
(* Python values.                                                          *)
(***************************************************************************)
\* Python's None, and a value that is set: an attribute that may be None is
\* <<>> or <<v>>
None == <<>>

Some(v) == <<v>>

\* no exception: the call returned
NoExc == "none"

\* seq without its first n elements: seq[n:]
Drop(seq, n) == SubSeq(seq, n + 1, Len(seq))

\* all sequences over S of length at most n
SeqUpTo(S, n) == UNION {[1..k -> S] : k \in 0..n}

\* the dict d with d[k] = v
DictSet(d, k, v) == [x \in DOMAIN d \cup {k} |-> IF x = k THEN v ELSE d[x]]

\* the empty dict
EmptyDict == [x \in {} |-> None]

\* what a raise does to the state of a running call: the first exception
\* stays, and nothing after it runs
Raise(st, e) == [st EXCEPT !.exc = e]

\* warn(msg)
Warn(st, msg) == [st EXCEPT !.warnings = @ \cup {msg}]

\* F applied to the value of e
Bind(e, F(_)) == CHOOSE r \in {F(v) : v \in {e}} : TRUE

\* sequencing of statements: F runs on the state e leaves unless e raised
Then(e, F(_)) == Bind(e, LAMBDA st : IF st.exc # NoExc THEN st ELSE F(st))

(***************************************************************************)
(* annotate_cobra_from_sbase.                                              *)
(*                                                                         *)
(* A resource URI is [head, rest]: head is its first 23 characters and     *)
(* rest, what follows them, a sequence of tokens, each the separator "/"   *)
(* or a text without "/".  An element (SBase) is [sbo, cvterms, uris]: sbo *)
(* is <<>> when isSetSBOTerm() is false and <<n>> when getSBOTerm() is n;  *)
(* cvterms is FALSE when getCVTerms() is None; uris are the resources of   *)
(* all its CV terms in document order (the two nested loops walk them in   *)
(* that order).                                                            *)
(***************************************************************************)
IDENTIFIERS_ORG == "http://identifiers.org/"

UriRests ==
    { <<"chebi", "/", "1">>, <<"chebi", "/", "2">>, <<"SBO", "/", "1">>,
      <<"chebi">>, <<"chebi", "/", "1", "/", "2">> }

Uris ==
    [head : {IDENTIFIERS_ORG}, rest : UriRests]
        \cup [head : {"http://purl.org/chebi/"}, rest : {<<"chebi", "/", "1">>}]

\* the SBO terms an element may carry
SboTerms == {<<>>, <<"176">>}

\* the string the tokens spell
RECURSIVE Join(_)
Join(tokens) ==
    IF tokens = <<>> THEN "" ELSE Head(tokens) \o Join(Tail(tokens))

\* uri.startswith("http://identifiers.org/")
StartsWithIdentifiersOrg(uri) == uri.head = IDENTIFIERS_ORG

\* the index of the first "/" in tokens, 0 when there is none
FirstSlash(tokens) ==
    IF \E i \in 1..Len(tokens) : tokens[i] = "/"
    THEN CHOOSE i \in 1..Len(tokens) :
            /\ tokens[i] = "/"
            /\ \A j \in 1..(i - 1) : tokens[j] # "/"
    ELSE 0

\* provider, identifier = uri[23:].split("/", 1); ok is FALSE when the
\* unpacking raises ValueError (no "/": split returns one part)
SplitUri(uri) ==
    LET i == FirstSlash(uri.rest)
    IN  IF i = 0
        THEN [ok |-> FALSE, provider |-> "", identifier |-> ""]
        ELSE [ok |-> TRUE,
              provider |-> Join(SubSeq(uri.rest, 1, i - 1)),
              identifier |-> Join(Drop(uri.rest, i))]

\* lines 601-607: record identifier under annotation[provider].  A value is
\* [t, v]: a string ("str"), a list ("list") or the integer of the SBO term
\* ("int"), which has no append: AttributeError.
AddIdentifier(st, provider, identifier) ==
    IF provider \in DOMAIN st.annotation
    THEN LET old == st.annotation[provider]
         IN  CASE old.t = "str" ->
                    [st EXCEPT !.annotation = DictSet(st.annotation, provider,
                        [t |-> "list", v |-> <<old.v, identifier>>])]
               [] old.t = "list" ->
                    [st EXCEPT !.annotation = DictSet(st.annotation, provider,
                        [t |-> "list", v |-> Append(old.v, identifier)])]
               [] OTHER -> Raise(st, "AttributeError")
    ELSE [st EXCEPT !.annotation =
            DictSet(st.annotation, provider, [t |-> "str", v |-> identifier])]

\* lines 590-607: one resource
AnnotateUri(st, uri) ==
    IF ~StartsWithIdentifiersOrg(uri)
    THEN Warn(st, <<"does not start with http://identifiers.org/", uri>>)
    ELSE IF ~SplitUri(uri).ok
    THEN Warn(st, <<"does not conform to http://identifiers.org/provider/id", uri>>)
    ELSE AddIdentifier(st, SplitUri(uri).provider, SplitUri(uri).identifier)

\* the loop of lines 586-607 over the resources that are left
RECURSIVE AnnotateLoop(_, _)
AnnotateLoop(st, uris) ==
    IF uris = <<>> THEN st
    ELSE Then(AnnotateUri(st, Head(uris)),
              LAMBDA s1 : AnnotateLoop(s1, Tail(uris)))

\* annotate_cobra_from_sbase(cobj, sbase), cobj.annotation being annotation:
\* [annotation, warnings, exc]
annotate_cobra_from_sbase(annotation, sbase) ==
    LET a0 == IF sbase.sbo # <<>>
              THEN DictSet(annotation, "SBO", [t |-> "int", v |-> sbase.sbo[1]])
              ELSE annotation
        st0 == [annotation |-> a0, warnings |-> {}, exc |-> NoExc]
    IN  IF ~sbase.cvterms THEN st0 ELSE AnnotateLoop(st0, sbase.uris)

\* the elements annotate_cobra_from_sbase is given
SBases ==
    [sbo : SboTerms, cvterms : {TRUE}, uris : SeqUpTo(Uris, MaxUris)]
        \cup [sbo : SboTerms, cvterms : {FALSE}, uris : {<<>>}]

\* an element without SBO term and without CV terms
PlainSBase == [sbo |-> <<>>, cvterms |-> FALSE, uris |-> <<>>]

(***************************************************************************)
(* _check_required.                                                        *)
(***************************************************************************)
\* _check_required(sbase, value, attribute): value when it is not None,
\* CobraSBMLError when it is
_check_required(st, value) ==
    IF value = None THEN Raise(st, "CobraSBMLError") ELSE st

(***************************************************************************)
(* _sbml_to_model.                                                         *)
(*                                                                         *)
(* The state st of a running conversion: exc, warnings, the cobra model    *)
(* cmodel being built, and the locals boundary_ids and reactions.          *)
(***************************************************************************)
LONG_SHORT_DIRECTION == [maximize |-> "max", minimize |-> "min"]

\* Model(model.id): no metabolites, genes or reactions, an empty objective
\* to maximize
NewModel ==
    [compartments |-> EmptyDict, metabolites |-> <<>>, genes |-> <<>>,
     reactions |-> <<>>, objective |-> EmptyDict, direction |-> "max"]

\* the ids of the objects of a list of the model (a DictList)
Ids(list) == {list[i].id : i \in DOMAIN list}

\* lines 163-174: the warnings about FBC, the model and its compartments.
\* doc.getModel() is None for a text libsbml could not parse.
ReadHeader(doc) ==
    LET st0 == [exc |-> NoExc, warnings |-> {}, cmodel |-> NewModel,
                boundary_ids |-> {}, reactions |-> <<>>]
    IN  IF ~doc.model THEN Raise(st0, "AttributeError")
        ELSE LET st1 == IF doc.fbc = "none"
                        THEN Warn(st0, <<"Model does not contain FBC information.">>)
                        ELSE IF doc.fbc = "nonstrict"
                        THEN Warn(st0, <<"Loading SBML model without fbc:strict=true">>)
                        ELSE st0
             IN  [st1 EXCEPT !.cmodel.compartments = doc.compartments]

\* the call annotate_cobra_from_sbase(cobj, sbase) of lines 193, 203 and
\* 212: its warnings and its exception are those of the conversion
Annotate(st, sbase) ==
    Bind(annotate_cobra_from_sbase(EmptyDict, sbase),
         LAMBDA an : [st EXCEPT !.warnings = @ \cup an.warnings,
                                !.exc = an.exc])

\* lines 179-195: one species
ReadSpecies(st, s) ==
    LET s1 == _check_required(st, s.id)
        s2 == Then(s1, LAMBDA x :
                IF s.boundary
                THEN [x EXCEPT !.boundary_ids = @ \cup {s.id[1]}]
                ELSE x)
        s3 == Then(s2, LAMBDA x : Annotate(x, s))
    IN  Then(s3, LAMBDA x :
            [x EXCEPT !.cmodel.metabolites =
                Append(@, [id |-> s.id[1],
                           annotation |->
                             annotate_cobra_from_sbase(EmptyDict, s).annotation])])

\* lines 178-195: the loop over model.species
RECURSIVE ReadSpeciesList(_, _)
ReadSpeciesList(st, species) ==
    IF species = <<>> THEN st
    ELSE Then(ReadSpecies(st, Head(species)),
              LAMBDA s1 : ReadSpeciesList(s1, Tail(species)))

\* lines 199-204: one gene product; gp.get does not exist
ReadGene(st, gp) ==
    LET s1 == IF gp.name = None THEN Raise(st, "AttributeError") ELSE st
        s2 == Then(s1, LAMBDA x : Annotate(x, gp))
    IN  Then(s2, LAMBDA x :
            [x EXCEPT !.cmodel.genes =
                Append(@, [id |-> gp.id, name |-> gp.name[1],
                           annotation |->
                             annotate_cobra_from_sbase(EmptyDict, gp).annotation])])

RECURSIVE ReadGeneLoop(_, _)
ReadGeneLoop(st, gps) ==
    IF gps = <<>> THEN st
    ELSE Then(ReadGene(st, Head(gps)),
              LAMBDA s1 : ReadGeneLoop(s1, Tail(gps)))

\* lines 198-204: model_fbc is None without FBC, and None has no
\* getListOfGeneProducts
ReadGenes(st, doc) ==
    IF doc.fbc = "none" THEN Raise(st, "AttributeError")
    ELSE ReadGeneLoop(st, doc.geneProducts)

\* ReadBound without the test of p.constant
ReadBoundOfAnyParameter(st, parameters, pid) ==
    IF pid \notin DOMAIN parameters THEN Raise(st, "AttributeError")
    ELSE IF parameters[pid].value # None THEN st
    ELSE Raise(st, "CobraSBMLError")

\* lines 222-233 for one of the two bounds: the parameter the reaction names
\* must be constant and have a value.  model.getParameter returns None for
\* an id that names no parameter, and None has no attribute constant.
ReadBound(st, parameters, pid) ==
    IF pid \notin DOMAIN parameters THEN Raise(st, "AttributeError")
    ELSE IF parameters[pid].constant /\ parameters[pid].value # None THEN st
    ELSE Raise(st, "CobraSBMLError")

\* AddReference that assigns the signed stoichiometry instead of adding it
\* to what the species has accumulated
AddReferenceOverwriting(acc, sref, sign) ==
    Then(_check_required(acc, sref.stoichiometry), LAMBDA x :
        [x EXCEPT !.d = DictSet(x.d, sref.species,
                                sign * sref.stoichiometry[1])])

\* lines 243 and 247: one species reference added to the defaultdict
\* stoichiometry, sign being -1 for a reactant and 1 for a product; acc is
\* [exc, d]
AddReference(acc, sref, sign) ==
    LET sid == sref.species
        cur == IF sid \in DOMAIN acc.d THEN acc.d[sid] ELSE 0
    IN  Then(_check_required(acc, sref.stoichiometry), LAMBDA x :
            [x EXCEPT !.d = DictSet(x.d, sid,
                                    cur + sign * sref.stoichiometry[1])])

\* lines 240-243 and 245-247: the references of one side
RECURSIVE Accumulate(_, _, _)
Accumulate(acc, srefs, sign) ==
    IF srefs = <<>> THEN acc
    ELSE Then(AddReference(acc, Head(srefs), sign),
              LAMBDA a1 : Accumulate(a1, Tail(srefs), sign))

\* lines 239-247: the dict stoichiometry of a reaction, [exc, d]
Stoichiometry(r) ==
    Then(Accumulate([exc |-> NoExc, d |-> EmptyDict], r.reactants, -1),
         LAMBDA a1 : Accumulate(a1, r.products, 1))

\* ObjectStoichiometry without the test of boundary_ids
ObjectStoichiometryWithBoundary(st, stoichiometry) ==
    LET kept == {m \in DOMAIN stoichiometry : m \in Ids(st.cmodel.metabolites)}
    IN  [m \in kept |-> stoichiometry[m]]

\* lines 250-262: the stoichiometry keyed by the metabolites of the model;
\* boundary and unknown species are left out
ObjectStoichiometry(st, stoichiometry) ==
    LET kept == {m \in DOMAIN stoichiometry :
                    /\ m \notin st.boundary_ids
                    /\ m \in Ids(st.cmodel.metabolites)}
    IN  [m \in kept |-> stoichiometry[m]]

\* lines 253 and 259: the warnings of that loop
StoichiometryWarnings(st, stoichiometry, rid) ==
    {<<"Boundary metabolite used in reaction", m, rid>> :
        m \in DOMAIN stoichiometry \cap st.boundary_ids}
    \cup
    {<<"ignoring unknown metabolite in reaction", m, rid>> :
        m \in (DOMAIN stoichiometry \ st.boundary_ids)
                \ Ids(st.cmodel.metabolites)}

\* lines 297-316: the gene product association is fetched and not used; the
\* rule is the empty string
GeneReactionRule(r) == ""

\* lines 226, 231, 236 and 238-316: the reaction with its bounds, its
\* equation and its rule, added to the list reactions
BuildReaction(st, r, doc) ==
    Bind(Stoichiometry(r), LAMBDA acc :
        IF acc.exc # NoExc THEN Raise(st, acc.exc)
        ELSE [st EXCEPT
                !.warnings = @ \cup StoichiometryWarnings(st, acc.d, r.id[1]),
                !.reactions = Append(@,
                    [id |-> r.id[1],
                     lower_bound |-> doc.parameters[r.lb[1]].value[1],
                     upper_bound |-> doc.parameters[r.ub[1]].value[1],
                     metabolites |-> ObjectStoichiometry(st, acc.d),
                     gene_reaction_rule |-> GeneReactionRule(r),
                     annotation |->
                        annotate_cobra_from_sbase(EmptyDict, r).annotation])])

\* lines 209-316: one reaction
ReadReaction(st, r, doc) ==
    LET s1 == _check_required(st, r.id)
        s2 == Then(s1, LAMBDA x : Annotate(x, r))
        s3 == Then(s2, LAMBDA x :
                IF ~r.fbc THEN Raise(x, "CobraSBMLError")
                ELSE _check_required(x, r.lb))
        s4 == Then(s3, LAMBDA x : _check_required(x, r.ub))
        s5 == Then(s4, LAMBDA x : ReadBound(x, doc.parameters, r.lb[1]))
        s6 == Then(s5, LAMBDA x : ReadBound(x, doc.parameters, r.ub[1]))
    IN  Then(s6, LAMBDA x : BuildReaction(x, r, doc))

\* lines 208-316: the loop over model.reactions
RECURSIVE ReadReactionList(_, _, _)
ReadReactionList(st, rs, doc) ==
    IF rs = <<>> THEN st
    ELSE Then(ReadReaction(st, Head(rs), doc),
              LAMBDA s1 : ReadReactionList(s1, Tail(rs), doc))

\* lines 318-321: cmodel.add_reactions(reactions)
AddReactions(st) == [st EXCEPT !.cmodel.reactions = st.reactions]

\* AddCoefficient skipping a flux objective of an unknown reaction
AddCoefficientOfKnown(acc, fo, reactionIds) ==
    IF fo.reaction \notin reactionIds THEN acc
    ELSE [acc EXCEPT !.d = DictSet(acc.d, fo.reaction, fo.coefficient)]

\* lines 336-342: one flux objective; acc is [exc, d], d the dict
\* coefficients
AddCoefficient(acc, fo, reactionIds) ==
    IF fo.reaction \notin reactionIds THEN Raise(acc, "CobraSBMLError")
    ELSE [acc EXCEPT !.d = DictSet(acc.d, fo.reaction, fo.coefficient)]

\* lines 334-344: the loop over the flux objectives
RECURSIVE ObjectiveCoefficients(_, _, _)
ObjectiveCoefficients(acc, fluxObjectives, reactionIds) ==
    IF fluxObjectives = <<>> THEN acc
    ELSE Then(AddCoefficient(acc, Head(fluxObjectives), reactionIds),
              LAMBDA a1 : ObjectiveCoefficients(a1, Tail(fluxObjectives),
                                                reactionIds))

\* lines 328-346: the active objective.  getObjective returns None for an id
\* that names no objective; LONG_SHORT_DIRECTION has two keys.
ReadActiveObjective(st, objectives) ==
    IF objectives.active \notin DOMAIN objectives.objs
    THEN Raise(st, "AttributeError")
    ELSE IF objectives.objs[objectives.active].type
                \notin DOMAIN LONG_SHORT_DIRECTION
    THEN Raise(st, "KeyError")
    ELSE Bind(ObjectiveCoefficients([exc |-> NoExc, d |-> EmptyDict],
                objectives.objs[objectives.active].fluxObjectives,
                Ids(st.cmodel.reactions)),
              LAMBDA acc :
                IF acc.exc # NoExc THEN Raise(st, acc.exc)
                ELSE [st EXCEPT
                        !.cmodel.objective = acc.d,
                        !.cmodel.direction = LONG_SHORT_DIRECTION[
                            objectives.objs[objectives.active].type]])

\* lines 324-346
ReadObjective(st, doc) ==
    IF ~doc.objectives.list
    THEN Warn(st, <<"listOfObjectives element not found">>)
    ELSE ReadActiveObjective(st, doc.objectives)

\* _sbml_to_model(doc): [exc, warnings, cmodel, ...]; cmodel is returned
\* when exc is "none"
_sbml_to_model(doc) ==
    LET s1 == Then(ReadHeader(doc), LAMBDA x : ReadSpeciesList(x, doc.species))
        s2 == Then(s1, LAMBDA x : ReadGenes(x, doc))
        s3 == Then(s2, LAMBDA x : ReadReactionList(x, doc.reactions, doc))
        s4 == Then(s3, LAMBDA x : AddReactions(x))
    IN  Then(s4, LAMBDA x : ReadObjective(x, doc))

(***************************************************************************)
(* read_sbml_model.                                                        *)
(*                                                                         *)
(* The argument is [kind, exists, doc]: kind "str" is a string, "handle"   *)
(* an object with read(), "other" anything else; exists says that the      *)
(* string is the path of an existing file; doc is the document libsbml     *)
(* makes of the file, of the string, or of what read() returns.            *)
(***************************************************************************)
\* os.path.exists(filename): os.stat raises TypeError for what is neither a
\* string nor a path
os_path_exists(a) ==
    IF a.kind = "str" THEN (IF a.exists THEN "True" ELSE "False")
    ELSE "TypeError"

\* what the try block gives when it raises x before any document is made
Failed(x) == [exc |-> x, warnings |-> {}, parsed |-> "none", cmodel |-> None]

\* line 107 after the libsbml reader named: return _sbml_to_model(doc)
Converted(reader, doc) ==
    Bind(_sbml_to_model(doc), LAMBDA st :
        [exc |-> st.exc, warnings |-> st.warnings, parsed |-> reader,
         cmodel |-> IF st.exc = NoExc THEN Some(st.cmodel) ELSE None])

\* lines 93-107, the body of the try: which libsbml reader is called
\* (parsed) and what the conversion of its document gives
ReadBody(a) ==
    IF os_path_exists(a) = "TypeError" THEN Failed("TypeError")
    ELSE IF os_path_exists(a) = "True"
    THEN Converted("readSBMLFromFile", a.doc)
    ELSE IF a.kind = "str" THEN Converted("readSBMLFromString", a.doc)
    ELSE IF a.kind = "handle" THEN Converted("readSBMLFromString", a.doc)
    ELSE Failed("CobraSBMLError")

\* a handler that lets the exception pass
ExceptNothing(e) == e

\* lines 109-113: except Exception: raise CobraSBMLError(...)
ExceptException(e) == IF e = NoExc THEN NoExc ELSE "CobraSBMLError"

\* read_sbml_model(filename): exc is what escapes, cause what was raised in
\* the try, model the return value
read_sbml_model(a) ==
    Bind(ReadBody(a), LAMBDA b :
        [exc |-> ExceptException(b.exc), cause |-> b.exc,
         parsed |-> b.parsed, warnings |-> b.warnings,
         model |-> IF ExceptException(b.exc) = NoExc THEN b.cmodel ELSE None])

(***************************************************************************)
(* write_sbml_model and _model_to_sbml.                                    *)
(***************************************************************************)
\* lines 363-377: the document is created with an empty model and
\* fbc:strict, then model_id, a name that is defined nowhere, is read:
\* NameError.  Nothing after line 374 runs (line 377 returns, and what
\* follows it is unreachable).
_model_to_sbml(cobra_model) ==
    [exc |-> "NameError", doc |-> None]

\* lines 147-148: writeSBMLToFile is reached only when _model_to_sbml
\* returns; file is the document written
write_sbml_model(cobra_model) ==
    LET r == _model_to_sbml(cobra_model)
    IN  [exc |-> r.exc, file |-> IF r.exc = NoExc THEN r.doc ELSE None]

(***************************************************************************)
(* The documents and models the operations are applied to.                 *)
(***************************************************************************)
LOWER_BOUND == -1000

UPPER_BOUND == 1000

LOWER_BOUND_ID == "cobra_default_lb"

UPPER_BOUND_ID == "cobra_default_ub"

ZERO_BOUND_ID == "cobra_0_bound"

\* a species element
Species(id, boundary) == [id |-> id, boundary |-> boundary] @@ PlainSBase

\* a species reference
SRefs == [species : {"M_a", "M_b", "M_x"}, stoichiometry : {None, Some(1), Some(2)}]

\* the id of the i-th reaction of a document
RId(i) == "R_" \o ToString(i)

\* a reaction from M_a to M_b between the default bounds
BaseReaction(i) ==
    [id |-> Some(RId(i)), fbc |-> TRUE,
     lb |-> Some(LOWER_BOUND_ID), ub |-> Some(UPPER_BOUND_ID),
     reactants |-> <<[species |-> "M_a", stoichiometry |-> Some(1)]>>,
     products |-> <<[species |-> "M_b", stoichiometry |-> Some(1)]>>,
     gpa |-> None] @@ PlainSBase

\* the parameters of the documents: the two default bounds, a parameter
\* that is not constant and a constant one without value
BaseParameters ==
    [x \in {LOWER_BOUND_ID, UPPER_BOUND_ID, "p_free", "p_unset"} |->
        CASE x = LOWER_BOUND_ID -> [constant |-> TRUE, value |-> Some(LOWER_BOUND)]
          [] x = UPPER_BOUND_ID -> [constant |-> TRUE, value |-> Some(UPPER_BOUND)]
          [] x = "p_free" -> [constant |-> FALSE, value |-> Some(0)]
          [] x = "p_unset" -> [constant |-> TRUE, value |-> None]]

Objective(type, fluxObjectives) ==
    [type |-> type, fluxObjectives |-> fluxObjectives]

Objectives(list, active, obj) ==
    [list |-> list, active |-> active, objs |-> [x \in {"obj"} |-> obj]]

\* a well-formed document: two species, one reaction, one objective
BaseDoc ==
    [model |-> TRUE, fbc |-> "strict",
     compartments |-> [x \in {"c"} |-> "cytosol"],
     species |-> <<Species(Some("M_a"), FALSE), Species(Some("M_b"), FALSE)>>,
     geneProducts |-> <<>>,
     parameters |-> BaseParameters,
     reactions |-> <<BaseReaction(1)>>,
     objectives |-> Objectives(TRUE, "obj",
        Objective("maximize", <<[reaction |-> RId(1), coefficient |-> 1]>>))]

\* a document that differs in the header: no model, no FBC, FBC not strict
DocHeader(m, f) == [BaseDoc EXCEPT !.model = m, !.fbc = f]

\* the species lists: each of M_a and M_b absent, plain or a boundary
\* species, and a species without id
SpeciesOf(id, c) ==
    IF c = "absent" THEN <<>> ELSE <<Species(Some(id), c = "boundary")>>

SpeciesLists ==
    {SpeciesOf("M_a", ca) \o SpeciesOf("M_b", cb) :
        ca \in {"absent", "plain", "boundary"},
        cb \in {"absent", "plain", "boundary"}}
    \cup {<<Species(None, FALSE)>>}

\* the numbers of reactants and of products: at most MaxRefs together
RefCounts == {x \in (0..MaxRefs) \X (0..MaxRefs) : x[1] + x[2] <= MaxRefs}

\* a document that differs in the species and in the equation of R_1
DocStoich(sl, reactants, products) ==
    [BaseDoc EXCEPT !.species = sl,
                    !.reactions = <<[BaseReaction(1) EXCEPT
                                        !.reactants = reactants,
                                        !.products = products]>>]

\* the parameter a reaction names as a bound: none, one of the parameters,
\* or an id that names no parameter
BoundRefs ==
    {None, Some(LOWER_BOUND_ID), Some(UPPER_BOUND_ID), Some("p_free"),
     Some("p_unset"), Some("p_missing")}

\* the FBC information of a reaction: the two bounds it names, or none
BoundChoices == (BoundRefs \X BoundRefs) \cup {<<>>}

\* the i-th reaction with that FBC information
BoundReaction(i, c) ==
    IF c = <<>> THEN [BaseReaction(i) EXCEPT !.fbc = FALSE]
    ELSE [BaseReaction(i) EXCEPT !.lb = c[1], !.ub = c[2]]

\* a document that differs in the reactions and their flux bounds
DocBounds(cs) ==
    [BaseDoc EXCEPT !.reactions = [i \in DOMAIN cs |-> BoundReaction(i, cs[i])]]

FluxObjectives == [reaction : {RId(1), RId(2), "R_x"}, coefficient : {1, 2}]

\* a document with k reactions that differs in the objective
DocObjective(k, objectives) ==
    [BaseDoc EXCEPT !.reactions = [i \in 1..k |-> BaseReaction(i)],
                    !.objectives = objectives]

\* gene products, and the gene product associations of a reaction
GeneProducts ==
    {[id |-> g, name |-> n] @@ PlainSBase :
        g \in {"G_g1", "G_g2"}, n \in {None, Some("gene")}}

GeneRef(g) == [op |-> "ref", gene |-> g]

Associations ==
    {None, Some(GeneRef("G_g1")),
     Some([op |-> "and", args |-> <<GeneRef("G_g1"), GeneRef("G_g2")>>]),
     Some([op |-> "or", args |->
        <<GeneRef("G_g1"),
          [op |-> "and", args |-> <<GeneRef("G_g1"), GeneRef("G_g2")>>]>>])}

\* a document that differs in the gene products and the association of R_1
DocGenes(gps, g) ==
    [BaseDoc EXCEPT !.geneProducts = gps,
                    !.reactions = <<[BaseReaction(1) EXCEPT !.gpa = g]>>]

\* a document that differs in the annotation of the species M_a, of the
\* reaction R_1, or of a gene product
DocAnnot(element, sb) ==
    CASE element = "species" ->
            [BaseDoc EXCEPT !.species[1] =
                [id |-> Some("M_a"), boundary |-> FALSE] @@ sb]
      [] element = "reaction" ->
            [BaseDoc EXCEPT !.reactions[1] = sb @@ BaseReaction(1)]
      [] element = "geneProduct" ->
            [BaseDoc EXCEPT !.geneProducts =
                <<sb @@ [id |-> "G_g1", name |-> Some("gene")]>>]

\* what the argument of read_sbml_model is: a path of an existing file,
\* another string, a file handle
ArgKinds ==
    {[kind |-> "str", exists |-> TRUE], [kind |-> "str", exists |-> FALSE],
     [kind |-> "handle", exists |-> FALSE]}

\* the cobra models write_sbml_model is given: metabolites a and b, and
\* reactions r1, r2, ... from a to b with their bounds
BoundPairs == {LOWER_BOUND, 0, -5} \X {UPPER_BOUND, 0, 5}

ModelReaction(i, bp) ==
    [id |-> "r" \o ToString(i), lower_bound |-> bp[1], upper_bound |-> bp[2],
     metabolites |-> [m \in {"a", "b"} |-> IF m = "a" THEN -1 ELSE 1],
     gene_reaction_rule |-> "", annotation |-> EmptyDict]

CobraModel(bps, d) ==
    [compartments |-> [x \in {"c"} |-> "cytosol"],
     metabolites |-> <<[id |-> "a", annotation |-> EmptyDict],
                       [id |-> "b", annotation |-> EmptyDict]>>,
     genes |-> <<>>,
     reactions |-> [i \in DOMAIN bps |-> ModelReaction(i, bps[i])],
     objective |-> IF bps = <<>> THEN EmptyDict ELSE [x \in {"r1"} |-> 1],
     direction |-> d]

(***************************************************************************)
(* The actions: one call of an entry point.                                *)
(***************************************************************************)
Init ==
    /\ op = "idle"
    /\ arg = None
    /\ out = None

\* the call read_sbml_model(a)
Read(a) ==
    /\ arg' = a
    /\ out' = read_sbml_model(a)
    /\ op' = "read"

\* the call read_sbml_model of a path, a string or a handle of document doc
ReadDoc(doc) ==
    \E k \in ArgKinds : Read([kind |-> k.kind, exists |-> k.exists, doc |-> doc])

\* read_sbml_model(filename), for the arguments and documents of the model
ReadSbmlModel ==
    /\ op = "idle"
    /\ \/ Read([kind |-> "other", exists |-> FALSE, doc |-> None])
       \/ \E m \in BOOLEAN, f \in {"none", "nonstrict", "strict"} :
            ReadDoc(DocHeader(m, f))
       \/ \E sl \in SpeciesLists, n \in RefCounts :
            \E reactants \in [1..n[1] -> SRefs], products \in [1..n[2] -> SRefs] :
                ReadDoc(DocStoich(sl, reactants, products))
       \/ \E k \in 0..MaxReactions : \E cs \in [1..k -> BoundChoices] :
            ReadDoc(DocBounds(cs))
       \/ \E k \in 0..2, t \in {"maximize", "minimize", ""},
             n \in 0..MaxFluxObjectives :
            \E fos \in [1..n -> FluxObjectives] :
                ReadDoc(DocObjective(k, Objectives(TRUE, "obj", Objective(t, fos))))
       \/ \E l \in BOOLEAN, a \in {"obj", ""} :
            ReadDoc(DocObjective(1, Objectives(l, a, Objective("minimize", <<>>))))
       \/ \E n \in 0..MaxGeneProducts, g \in Associations :
            \E gps \in [1..n -> GeneProducts] : ReadDoc(DocGenes(gps, g))
       \/ \E sb \in SBases : ReadDoc(DocAnnot("species", sb))
       \/ \E e \in {"reaction", "geneProduct"} :
            \E sb \in {x \in SBases : Len(x.uris) <= 1} : ReadDoc(DocAnnot(e, sb))

\* write_sbml_model(cobra_model, filename)
WriteSbmlModel ==
    /\ op = "idle"
    /\ \E n \in 0..MaxReactions, d \in {"max", "min"} :
        \E bps \in [1..n -> BoundPairs] :
            /\ arg' = CobraModel(bps, d)
            /\ out' = write_sbml_model(CobraModel(bps, d))
    /\ op' = "write"

\* annotate_cobra_from_sbase on a new object (Object.annotation starts {})
AnnotateCobraFromSbase ==
    /\ op = "idle"
    /\ \E sbase \in SBases :
        /\ arg' = sbase
        /\ out' = annotate_cobra_from_sbase(EmptyDict, sbase)
    /\ op' = "annotate"

Next == ReadSbmlModel \/ WriteSbmlModel \/ AnnotateCobraFromSbase

Spec == Init /\ [][Next]_vars

(***************************************************************************)
(* The claims.  After a call of read_sbml_model, arg.doc is the document   *)
(* and out.model[1] the model returned.                                    *)
(***************************************************************************)
\* the call of read_sbml_model returned a model
Returned == op = "read" /\ out.exc = NoExc

\* species id sid is flagged boundaryCondition=true in doc
IsBoundary(doc, sid) ==
    \E j \in DOMAIN doc.species :
        doc.species[j].id = Some(sid) /\ doc.species[j].boundary

\* species id sid is the id of a species of doc
IsSpecies(doc, sid) ==
    \E j \in DOMAIN doc.species : doc.species[j].id = Some(sid)

\* C1: every failure of read_sbml_model surfaces as CobraSBMLError: whatever
\* is raised while reading (CobraSBMLError for an unsupported input or a
\* failed check, TypeError, AttributeError or KeyError from the libraries),
\* only CobraSBMLError escapes, and then no model is returned.
C1_OnlyCobraSBMLError ==
    op = "read" =>
        /\ out.exc \in {NoExc, "CobraSBMLError"}
        /\ out.cause # NoExc => (out.exc = "CobraSBMLError" /\ out.model = None)
        /\ out.cause = NoExc => (out.exc = NoExc /\ out.model # None)

\* C1, witness: a KeyError raised by the lookup of the objective's type
\* escaped as CobraSBMLError
C1_Witness ==
    /\ op = "read"
    /\ out.cause = "KeyError"
    /\ out.exc = "CobraSBMLError"

C3_StoichiometryOfKnownSpecies ==
    (op = "read" /\ out.parsed # "none" /\ arg.doc.model) =>
        LET doc == arg.doc
            Kept(sref) ==
                \/ sref.stoichiometry = None
                \/ (IsSpecies(doc, sref.species) /\ ~IsBoundary(doc, sref.species))
            without ==
                [doc EXCEPT !.reactions =
                    [i \in DOMAIN doc.reactions |->
                        [doc.reactions[i] EXCEPT
                            !.reactants = SelectSeq(@, Kept),
                            !.products = SelectSeq(@, Kept)]]]
        IN  /\ out.cause = _sbml_to_model(without).exc
            /\ Returned =>
                \A i \in DOMAIN out.model[1].reactions :
                    LET rx   == out.model[1].reactions[i]
                        r    == doc.reactions[i]
                        refs == r.reactants \o r.products
                    IN  /\ \A sid \in DOMAIN rx.metabolites :
                            /\ sid \in Ids(out.model[1].metabolites)
                            /\ ~IsBoundary(doc, sid)
                        /\ \A k \in DOMAIN refs :
                            LET sid == refs[k].species
                            IN  /\ IsBoundary(doc, sid) =>
                                    /\ sid \notin DOMAIN rx.metabolites
                                    /\ <<"Boundary metabolite used in reaction",
                                         sid, rx.id>> \in out.warnings
                                /\ ~IsSpecies(doc, sid) =>
                                    /\ sid \notin DOMAIN rx.metabolites
                                    /\ <<"ignoring unknown metabolite in reaction",
                                         sid, rx.id>> \in out.warnings

\* C3, witness: a model was returned for a reaction with a reference to the
\* boundary species M_b and one to the unknown species M_x
C3_Witness ==
    /\ Returned
    /\ <<"Boundary metabolite used in reaction", "M_b", RId(1)>> \in out.warnings
    /\ <<"ignoring unknown metabolite in reaction", "M_x", RId(1)>> \in out.warnings

\* C4: when a flux objective of the active objective names a reaction id
\* that is no reaction of the document, the read fails; in a returned model
\* the reactions with an objective coefficient are those the flux objectives
\* name, they are reactions of the model, and each coefficient is that of
\* the (last) flux objective naming the reaction.
C4_ObjectiveOfKnownReactions ==
    (op = "read" /\ arg.kind # "other" /\ arg.doc.objectives.list
        /\ arg.doc.objectives.active \in DOMAIN arg.doc.objectives.objs) =>
        LET doc == arg.doc
            fos == doc.objectives.objs[doc.objectives.active].fluxObjectives
            rids == {doc.reactions[i].id : i \in DOMAIN doc.reactions}
            Last(rid) == CHOOSE k \in DOMAIN fos :
                            /\ fos[k].reaction = rid
                            /\ \A j \in DOMAIN fos :
                                fos[j].reaction = rid => j <= k
        IN  /\ (\E k \in DOMAIN fos : Some(fos[k].reaction) \notin rids)
                    => out.exc = "CobraSBMLError"
            /\ Returned =>
                LET m == out.model[1]
                IN  /\ DOMAIN m.objective = {fos[k].reaction : k \in DOMAIN fos}
                    /\ \A rid \in DOMAIN m.objective :
                        /\ rid \in Ids(m.reactions)
                        /\ m.objective[rid] = fos[Last(rid)].coefficient

\* C4, witness: a model with two reactions was returned whose objective has
\* the coefficient 2 for R_1 and 1 for R_2
C4_Witness ==
    /\ Returned
    /\ DOMAIN out.model[1].objective = {RId(1), RId(2)}
    /\ out.model[1].objective[RId(1)] = 2
    /\ out.model[1].objective[RId(2)] = 1
    /\ out.model[1].direction = "min"

\* C5: writing a model and reading the written document back succeeds and
\* gives a model with the same compartments, metabolite ids, reaction ids,
\* flux bounds, stoichiometric coefficients, objective coefficients and
\* objective direction.
C5_RoundTrip ==
    op = "write" =>
        /\ out.exc = NoExc
        /\ out.file # None
        /\ LET m    == arg
               back == _sbml_to_model(out.file[1])
               b    == back.cmodel
           IN  /\ back.exc = NoExc
               /\ b.compartments = m.compartments
               /\ Ids(b.metabolites) = Ids(m.metabolites)
               /\ Len(b.reactions) = Len(m.reactions)
               /\ \A i \in DOMAIN m.reactions :
                    /\ b.reactions[i].id = m.reactions[i].id
                    /\ b.reactions[i].lower_bound = m.reactions[i].lower_bound
                    /\ b.reactions[i].upper_bound = m.reactions[i].upper_bound
                    /\ b.reactions[i].metabolites = m.reactions[i].metabolites
               /\ b.objective = m.objective
               /\ b.direction = m.direction

\* C6: the gene_reaction_rule of a reaction that was read is the Boolean
\* expression of its gene product association: it names the gene products
\* of the association, and it is empty only when the reaction has no
\* association.
C6_GeneReactionRule ==
    Returned =>
        \A i \in DOMAIN out.model[1].reactions :
            (out.model[1].reactions[i].gene_reaction_rule = "")
                <=> (arg.doc.reactions[i].gpa = None)

\* C7: the written document has the three shared parameters
\* cobra_default_lb, cobra_default_ub and cobra_0_bound, and every reaction
\* of the model is written with lowerFluxBound and upperFluxBound naming
\* parameters whose values are its bounds.
C7_BoundParameters ==
    op = "write" =>
        /\ out.exc = NoExc
        /\ out.file # None
        /\ LET doc == out.file[1]
           IN  /\ {LOWER_BOUND_ID, UPPER_BOUND_ID, ZERO_BOUND_ID}
                    \subseteq DOMAIN doc.parameters
               /\ Len(doc.reactions) = Len(arg.reactions)
               /\ \A i \in DOMAIN arg.reactions :
                    /\ doc.parameters[doc.reactions[i].lb[1]].value
                            = Some(arg.reactions[i].lower_bound)
                    /\ doc.parameters[doc.reactions[i].ub[1]].value
                            = Some(arg.reactions[i].upper_bound)

\* C8: the reader removes the prefixes "M_" and "R_": a species of the
\* document with id "M_" + x is the metabolite x of the returned model, a
\* reaction with id "R_" + x is the reaction x, and the stoichiometry of the
\* reaction is keyed by the clipped ids.
C8_ClippedIds ==
    Returned =>
        /\ \A j \in DOMAIN arg.doc.species : \A x \in {"a", "b"} :
            arg.doc.species[j].id = Some("M_" \o x)
                => x \in Ids(out.model[1].metabolites)
        /\ \A i \in DOMAIN arg.doc.reactions : \A x \in {"1", "2", "3"} :
            arg.doc.reactions[i].id = Some("R_" \o x)
                => out.model[1].reactions[i].id = x

\* C9: after annotate_cobra_from_sbase, for every provider p of a resource
\* http://identifiers.org/<p>/<identifier>, annotation[p] is the identifier
\* when one resource has the provider p, and the list of the identifiers in
\* document order when several have; every other resource is skipped with
\* a warning.
C9_AnnotationOfResources ==
    op = "annotate" =>
        LET uris == IF arg.cvterms THEN arg.uris ELSE <<>>
            WellFormed(u) == StartsWithIdentifiersOrg(u) /\ SplitUri(u).ok
            providers == {SplitUri(uris[k]).provider :
                            k \in {j \in DOMAIN uris : WellFormed(uris[j])}}
            Of(p) == LET From(u) == WellFormed(u) /\ SplitUri(u).provider = p
                         us == SelectSeq(uris, From)
                     IN  [k \in DOMAIN us |-> SplitUri(us[k]).identifier]
        IN  /\ out.exc = NoExc
            /\ providers \subseteq DOMAIN out.annotation
            /\ \A p \in providers :
                out.annotation[p] =
                    IF Len(Of(p)) = 1
                    THEN [t |-> "str", v |-> Of(p)[1]]
                    ELSE [t |-> "list", v |-> Of(p)]
            /\ \A k \in DOMAIN uris :
                ~WellFormed(uris[k]) =>
                    \E w \in out.warnings : w[2] = uris[k]

\* C10: read_sbml_model reads the path of an existing file with
\* readSBMLFromFile, any other string and what the read() of a file handle
\* returns with readSBMLFromString, and converts the document in all three
\* cases; any other argument is rejected with CobraSBMLError and nothing is
\* parsed.
C10_InputDispatch ==
    op = "read" =>
        /\ (arg.kind = "str" /\ arg.exists) =>
                out.parsed = "readSBMLFromFile"
        /\ (arg.kind = "str" /\ ~arg.exists) =>
                out.parsed = "readSBMLFromString"
        /\ arg.kind = "handle" =>
                /\ out.parsed = "readSBMLFromString"
                /\ out.cause = _sbml_to_model(arg.doc).exc
        /\ arg.kind = "other" =>
                /\ out.parsed = "none"
                /\ out.exc = "CobraSBMLError"

\* the sum of the stoichiometries of the references of srefs to species sid
RECURSIVE SumOf(_, _)
SumOf(srefs, sid) ==
    IF srefs = <<>> THEN 0
    ELSE (IF Head(srefs).species = sid THEN Head(srefs).stoichiometry[1] ELSE 0)
         + SumOf(Tail(srefs), sid)

\* some species reference of document doc has no stoichiometry
StoichiometryMissing(doc) ==
    \E i \in DOMAIN doc.reactions :
        \E sref \in {doc.reactions[i].reactants[k] :
                        k \in DOMAIN doc.reactions[i].reactants}
                    \cup {doc.reactions[i].products[k] :
                            k \in DOMAIN doc.reactions[i].products} :
            sref.stoichiometry = None

\* C11: in a returned model the coefficient of every metabolite of every
\* reaction is the sum of the stoichiometries of the product references to
\* that species minus the sum of those of the reactant references to it,
\* also when the species is referenced several times or on both sides, and
\* every species of the model that is not a boundary species and has a net
\* sum other than zero is a metabolite of the reaction; a document with a
\* species reference without stoichiometry is not read: CobraSBMLError is
\* raised and no model is returned.
C11_NetStoichiometry ==
    (op = "read" /\ out.parsed # "none" /\ arg.doc.model) =>
        LET doc == arg.doc
            Net(r, sid) == SumOf(r.products, sid) - SumOf(r.reactants, sid)
        IN  /\ StoichiometryMissing(doc) =>
                /\ out.exc = "CobraSBMLError"
                /\ out.model = None
            /\ Returned =>
                \A i \in DOMAIN out.model[1].reactions :
                    LET rx == out.model[1].reactions[i]
                        r  == doc.reactions[i]
                    IN  /\ \A sid \in DOMAIN rx.metabolites :
                            rx.metabolites[sid] = Net(r, sid)
                        /\ \A sid \in Ids(out.model[1].metabolites) :
                            (~IsBoundary(doc, sid) /\ Net(r, sid) # 0) =>
                                sid \in DOMAIN rx.metabolites

\* C11, witness: a model was returned for a reaction with M_a on both sides,
\* stoichiometry 1 as a reactant and 2 as a product, and M_a has the
\* coefficient 1
C11_Witness ==
    /\ Returned
    /\ Len(arg.doc.reactions) = 1
    /\ arg.doc.reactions[1].reactants = <<[species |-> "M_a", stoichiometry |-> Some(1)]>>
    /\ arg.doc.reactions[1].products = <<[species |-> "M_a", stoichiometry |-> Some(2)]>>
    /\ "M_a" \in DOMAIN out.model[1].reactions[1].metabolites
    /\ out.model[1].reactions[1].metabolites["M_a"] = 1

\* C12: a document whose model carries no FBC information, or FBC
\* information without fbc:strict, is read with a warning and not an error:
\* the warning is issued, and the read ends as it ends for the same document
\* with strict FBC information, so that a model is returned whenever one is
\* returned for that document.
C12_NoFbcWarning ==
    (op = "read" /\ out.parsed # "none" /\ arg.doc.model) =>
        LET doc == arg.doc
        IN  /\ doc.fbc = "none" =>
                /\ <<"Model does not contain FBC information.">> \in out.warnings
                /\ out.cause = _sbml_to_model([doc EXCEPT !.fbc = "strict"]).exc
            /\ doc.fbc = "nonstrict" =>
                /\ <<"Loading SBML model without fbc:strict=true">> \in out.warnings
                /\ out.cause = _sbml_to_model([doc EXCEPT !.fbc = "strict"]).exc

=============================================================================
